---- MODULE Spec2Model ----
(***************************************************************************)
(* Model of src/src/ProcessSchedulerVisualization.jsx: the process         *)
(* registry (the `processes` state of the component), the scheduling       *)
(* selector (`algorithm`) and the three handlers addProcess, removeProcess *)
(* and runSimulation with the FCFS engine simulateFCFS.                    *)
(*                                                                         *)
(* JavaScript values.  A form field is a string, modelled as a sequence of *)
(* one-character strings.  A number is an integer or NaN; NaN and the      *)
(* value `undefined` of a field that is not set are two integers far       *)
(* outside the range the model computes in, and all arithmetic goes        *)
(* through JSAdd, JSSub and MathMax, which treat NaN as JavaScript does.   *)
(*                                                                         *)
(* The form state `newProcess` is the argument of addProcess: the handler  *)
(* handleInputChange can bring the form to any content before the Add      *)
(* button is clicked, so the form at the click is an unconstrained input   *)
(* np of the action AddProcess.  The reset of the form after a successful  *)
(* add is covered, the empty form being one of the inputs.                 *)
(***************************************************************************)
EXTENDS Integers, Sequences, FiniteSets, TLC

VARIABLES
  processes,   \* the registry: useState([]) of line 26
  algorithm,   \* the selector: useState(SCHEDULING_ALGORITHMS.FCFS) of line 33
  alert,       \* the message of the alert() the last handler call raised
  lastCall     \* the last handler call: its name, the id it was given and,
               \* for addProcess, whether the three required fields were filled

vars == <<processes, algorithm, alert, lastCall>>

(***************************************************************************)
(* Bounds of the model.                                                    *)
(***************************************************************************)
\* arrival times typed as the digit strings "0" .. "MaxArrival"
MaxArrival == 1

(***************************************************************************)
(* JavaScript numbers.                                                     *)
(***************************************************************************)
NaN == -1000
Undefined == -2000

JSAdd(a, b) == IF a = NaN \/ b = NaN THEN NaN ELSE a + b
JSSub(a, b) == IF a = NaN \/ b = NaN THEN NaN ELSE a - b

\* Math.min, the variant of line 88 that takes the smaller time
MathMin(a, b) == IF a = NaN \/ b = NaN THEN NaN ELSE IF a <= b THEN a ELSE b
\* Math.max: NaN when an argument is NaN
MathMax(a, b) == IF a = NaN \/ b = NaN THEN NaN ELSE IF a >= b THEN a ELSE b

(***************************************************************************)
(* parseInt(string), radix 10: leading white space is skipped, an optional *)
(* sign is read, then the longest prefix of decimal digits; NaN when there *)
(* is no digit at that place.                                              *)
(***************************************************************************)
DigitChars == <<"0", "1", "2", "3", "4", "5", "6", "7", "8", "9">>

IsDigit(c) == \E d \in 1..10 : DigitChars[d] = c

DigitValue(c) == (CHOOSE d \in 1..10 : DigitChars[d] = c) - 1

RECURSIVE SkipWhiteSpace(_)
SkipWhiteSpace(s) ==
  IF s # <<>> /\ Head(s) = " " THEN SkipWhiteSpace(Tail(s)) ELSE s

RECURSIVE DigitPrefix(_, _)
DigitPrefix(s, acc) ==
  IF s = <<>> \/ ~IsDigit(Head(s))
  THEN acc
  ELSE DigitPrefix(Tail(s), acc * 10 + DigitValue(Head(s)))

parseInt(str) ==
  LET s    == SkipWhiteSpace(str)
      neg  == s # <<>> /\ Head(s) = "-"
      body == IF s # <<>> /\ Head(s) \in {"+", "-"} THEN Tail(s) ELSE s
  IN  IF body = <<>> \/ ~IsDigit(Head(body))
      THEN NaN
      ELSE IF neg THEN 0 - DigitPrefix(body, 0) ELSE DigitPrefix(body, 0)

(***************************************************************************)
(* Constants of the component.                                             *)
(***************************************************************************)
PROCESS_STATES == {"New", "Ready", "Running", "Waiting", "Terminated"}

FCFS == "First-Come, First-Served (FCFS)"
RR == "Round Robin (RR)"
SJF == "Shortest Job First (SJF)"
PRIORITY == "Priority Scheduling"

SCHEDULING_ALGORITHMS == {FCFS, RR, SJF, PRIORITY}

\* the messages of the three alert() calls; NoAlert: the handler raised none
NoAlert == "none"
AlertRequired == "Please fill in all required fields"
AlertDuplicate == "A process with this ID already exists"
AlertNotImplemented == "Selected algorithm not implemented yet"

(***************************************************************************)
(* What the user can type.  A number input hands the handler a string that *)
(* is empty or a valid floating-point number: "0", "-1", "1.5", ".5".      *)
(* FormInputs are the contents of the form at a click on Add Process:      *)
(* forms with well-formed numbers, forms with numbers no check of the      *)
(* handler rejects (a negative or a fractional one, with or without a      *)
(* priority), and forms with a required field left empty.                  *)
(***************************************************************************)
ProcessIds == {"a", "b", "c"}

DigitString(n) == <<DigitChars[n + 1]>>

Form(id, arrivalTime, burstTime, priority) ==
  [id |-> id, arrivalTime |-> arrivalTime,
   burstTime |-> burstTime, priority |-> priority]

ValidForms ==
  {Form(id, DigitString(n), <<"1">>, <<>>) : id \in ProcessIds, n \in 0..MaxArrival}

UncheckedForms ==
  UNION {{Form(id, <<"0">>, <<"-", "1">>, <<"1", ".", "5">>),
          Form(id, <<"0">>, <<".", "5">>, <<>>),
          Form(id, <<".", "5">>, <<"1">>, <<>>)} : id \in ProcessIds}

IncompleteForms ==
  {Form("",  <<"0">>, <<"1">>, <<>>),
   Form("a", <<>>,    <<"1">>, <<>>),
   Form("a", <<"0">>, <<>>,    <<>>),
   Form("",  <<>>,    <<>>,    <<>>)}

FormInputs == ValidForms \cup UncheckedForms \cup IncompleteForms

\* The options the user picks in the select: FCFS, and Round Robin for the
\* three options the switch of runSimulation sends to its default branch.
SelectorInputs == {FCFS, RR}

\* a selector value that is none of the four named algorithms
OtherSelector == "Multilevel Queue"

\* The values setAlgorithm is called with directly: FCFS and the value that
\* is no option of the select.
DirectSelectorInputs == {FCFS, OtherSelector}

(***************************************************************************)
(* The registry.                                                           *)
(***************************************************************************)
Indices(procs) == 1..Len(procs)

Ids(procs) == {procs[i].id : i \in Indices(procs)}

\* the variant of the duplicate test that finds no process
NeverDuplicate(procs, id) == FALSE

\* processes.some(p => p.id === processToAdd.id)
SomeHasId(procs, id) == \E i \in Indices(procs) : procs[i].id = id

\* the test of line 47 on parsed numbers, where a time of 0 is falsy
RequiredMissingParsed(np) ==
  \/ np.id = ""
  \/ np.arrivalTime = <<>> \/ parseInt(np.arrivalTime) = 0
  \/ np.burstTime = <<>> \/ parseInt(np.burstTime) = 0

\* !newProcess.id || !newProcess.arrivalTime || !newProcess.burstTime
RequiredMissing(np) ==
  np.id = "" \/ np.arrivalTime = <<>> \/ np.burstTime = <<>>

\* processToAdd with priority: parseInt(newProcess.priority), no default
ProcessToAddNoDefault(np) ==
  [id             |-> np.id,
   arrivalTime    |-> parseInt(np.arrivalTime),
   burstTime      |-> parseInt(np.burstTime),
   priority       |-> parseInt(np.priority),
   state          |-> "New",
   startTime      |-> Undefined,
   completionTime |-> Undefined,
   turnAroundTime |-> Undefined,
   waitingTime    |-> Undefined]

ProcessToAdd(np) ==
  [id             |-> np.id,
   arrivalTime    |-> parseInt(np.arrivalTime),
   burstTime      |-> parseInt(np.burstTime),
   priority       |-> IF np.priority # <<>> THEN parseInt(np.priority) ELSE 0,
   state          |-> "New",
   startTime      |-> Undefined,
   completionTime |-> Undefined,
   turnAroundTime |-> Undefined,
   waitingTime    |-> Undefined]

(***************************************************************************)
(* addProcess.  snap is the `processes` the handler's closure captured at  *)
(* the last render, prev the state the updater of setProcesses is applied  *)
(* to.  The result is the new registry and the alert raised.  React        *)
(* renders again after every click, so the actions below pass the current  *)
(* registry for both.                                                      *)
(***************************************************************************)
\* addProcess without the return after the duplicate alert
AddProcessNoReturn(snap, prev, np) ==
  IF RequiredMissing(np)
  THEN [processes |-> prev, alert |-> AlertRequired]
  ELSE IF SomeHasId(snap, ProcessToAdd(np).id)
       THEN [processes |-> Append(prev, ProcessToAdd(np)), alert |-> AlertDuplicate]
       ELSE [processes |-> Append(prev, ProcessToAdd(np)), alert |-> NoAlert]

addProcess(snap, prev, np) ==
  IF RequiredMissing(np)
  THEN [processes |-> prev, alert |-> AlertRequired]
  ELSE IF SomeHasId(snap, ProcessToAdd(np).id)
       THEN [processes |-> prev, alert |-> AlertDuplicate]
       ELSE [processes |-> Append(prev, ProcessToAdd(np)), alert |-> NoAlert]

\* the filter of line 79 with the test inverted: process.id === id
RemoveAllOthers(prev, id) == SelectSeq(prev, LAMBDA p : p.id = id)

\* prev.filter(process => process.id !== id)
removeProcess(prev, id) == SelectSeq(prev, LAMBDA p : p.id # id)

(***************************************************************************)
(* [...processes].sort((a, b) => a.arrivalTime - b.arrivalTime).           *)
(* A comparator result of NaN is read as +0 (SortCompare).  The sort is    *)
(* stable.  With a NaN arrival time among different numbers the comparator *)
(* is not consistent and the order is the implementation's; on the lists   *)
(* of up to three processes built here, insertion sort, V8's TimSort (run  *)
(* detection and binary insertion) and merge sort all return the order     *)
(* that this insertion sort returns.                                       *)
(***************************************************************************)
Compare(a, b) ==
  LET d == JSSub(a.arrivalTime, b.arrivalTime) IN IF d = NaN THEN 0 ELSE d

Front(s) == SubSeq(s, 1, Len(s) - 1)

Last(s) == s[Len(s)]

\* an insertion that keeps one process per arrival time
RECURSIVE SortedInsertDistinct(_, _)
SortedInsertDistinct(sorted, p) ==
  IF sorted = <<>> THEN <<p>>
  ELSE IF Compare(Last(sorted), p) = 0 THEN sorted
  ELSE IF Compare(Last(sorted), p) < 0 THEN Append(sorted, p)
  ELSE Append(SortedInsertDistinct(Front(sorted), p), Last(sorted))

\* p placed behind the last element that does not sort after it
RECURSIVE SortedInsert(_, _)
SortedInsert(sorted, p) ==
  IF sorted = <<>> \/ Compare(Last(sorted), p) <= 0
  THEN Append(sorted, p)
  ELSE Append(SortedInsert(Front(sorted), p), Last(sorted))

RECURSIVE StableSort(_)
StableSort(procs) ==
  IF procs = <<>> THEN <<>>
  ELSE SortedInsert(StableSort(Front(procs)), Last(procs))

(***************************************************************************)
(* simulateFCFS: the map over the sorted list, currentTime threaded        *)
(* through it.                                                             *)
(***************************************************************************)
\* the map of lines 87-98 with a record marked as terminated
RECURSIVE ScheduleMarkTerminated(_, _)
ScheduleMarkTerminated(sorted, currentTime) ==
  IF sorted = <<>> THEN <<>>
  ELSE LET process      == Head(sorted)
           processStart == MathMax(currentTime, process.arrivalTime)
           newTime      == JSAdd(processStart, process.burstTime)
       IN  <<[process EXCEPT
                !.state          = "Terminated",
                !.startTime      = processStart,
                !.completionTime = newTime,
                !.turnAroundTime = JSSub(newTime, process.arrivalTime),
                !.waitingTime    = JSSub(processStart, process.arrivalTime)]>>
           \o ScheduleMarkTerminated(Tail(sorted), newTime)

\* the map of lines 87-98 with a record that takes its start as its arrival
RECURSIVE ScheduleShiftArrival(_, _)
ScheduleShiftArrival(sorted, currentTime) ==
  IF sorted = <<>> THEN <<>>
  ELSE LET process      == Head(sorted)
           processStart == MathMax(currentTime, process.arrivalTime)
           newTime      == JSAdd(processStart, process.burstTime)
       IN  <<[process EXCEPT
                !.arrivalTime    = processStart,
                !.startTime      = processStart,
                !.completionTime = newTime,
                !.turnAroundTime = JSSub(newTime, process.arrivalTime),
                !.waitingTime    = JSSub(processStart, process.arrivalTime)]>>
           \o ScheduleShiftArrival(Tail(sorted), newTime)

RECURSIVE Schedule(_, _)
Schedule(sorted, currentTime) ==
  IF sorted = <<>> THEN <<>>
  ELSE LET process      == Head(sorted)
           processStart == MathMax(currentTime, process.arrivalTime)
           newTime      == JSAdd(processStart, process.burstTime)
       IN  <<[process EXCEPT
                !.startTime      = processStart,
                !.completionTime = newTime,
                !.turnAroundTime = JSSub(newTime, process.arrivalTime),
                !.waitingTime    = JSSub(processStart, process.arrivalTime)]>>
           \o Schedule(Tail(sorted), newTime)

\* the largest completionTime a record of the list carries, 0 when none does
RECURSIVE CarriedTime(_)
CarriedTime(procs) ==
  IF procs = <<>> THEN 0
  ELSE LET t == Head(procs).completionTime
           rest == CarriedTime(Tail(procs))
       IN  IF t \in {Undefined, NaN} \/ t < rest THEN rest ELSE t

\* simulateFCFS with a currentTime that outlives the call
SimulateCarryTime(snap) == Schedule(StableSort(snap), CarriedTime(snap))

simulateFCFS(snap) == Schedule(StableSort(snap), 0)

(***************************************************************************)
(* runSimulation: the new registry and the alert raised.                   *)
(* setProcesses(result) overwrites the state, whatever prev is.            *)
(***************************************************************************)
\* runSimulation with a default branch that falls through to FCFS
RunSimulationFallThrough(snap, prev, selector) ==
  [processes |-> simulateFCFS(snap), alert |-> NoAlert]

runSimulation(snap, prev, selector) ==
  IF selector = FCFS
  THEN [processes |-> simulateFCFS(snap), alert |-> NoAlert]
  ELSE [processes |-> prev, alert |-> AlertNotImplemented]

Call(op, id, filled) == [op |-> op, id |-> id, filled |-> filled]

\* the form holds an id, an arrival time and a burst time
Filled(np) == np.id # "" /\ np.arrivalTime # <<>> /\ np.burstTime # <<>>

Init ==
  /\ processes = <<>>
  /\ algorithm = FCFS
  /\ alert = NoAlert
  /\ lastCall = Call("none", "", TRUE)

\* a click on Add Process, the form holding np
AddProcess ==
  \E np \in FormInputs :
    LET r == addProcess(processes, processes, np) IN
      /\ processes' = r.processes
      /\ alert' = r.alert
      /\ lastCall' = Call("addProcess", np.id, Filled(np))
      /\ UNCHANGED algorithm

\* a click on the remove button of a rendered process card
RemoveProcess ==
  \E id \in Ids(processes) :
    /\ processes' = removeProcess(processes, id)
    /\ alert' = NoAlert
    /\ lastCall' = Call("removeProcess", id, TRUE)
    /\ UNCHANGED algorithm

\* the select's onChange, value one of its options
SetAlgorithm ==
  \E value \in SelectorInputs :
    /\ algorithm' = value
    /\ alert' = NoAlert
    /\ lastCall' = Call("setAlgorithm", "", TRUE)
    /\ UNCHANGED processes

\* a click on Run Simulation; the button is disabled while the registry is empty
RunSimulation ==
  /\ Len(processes) # 0
  /\ LET r == runSimulation(processes, processes, algorithm) IN
       /\ processes' = r.processes
       /\ alert' = r.alert
  /\ lastCall' = Call("runSimulation", "", TRUE)
  /\ UNCHANGED algorithm

Next == AddProcess \/ RemoveProcess \/ SetAlgorithm \/ RunSimulation

\* the component as the user drives it through its rendered controls
Spec == Init /\ [][Next]_vars

(***************************************************************************)
(* The component with the select left at its initial option.  No handler   *)
(* but runSimulation reads `algorithm`, and with another option selected   *)
(* runSimulation leaves the registry as it is, so the registries reached   *)
(* are those of Spec.                                                      *)
(***************************************************************************)
NextFCFS == AddProcess \/ RemoveProcess \/ RunSimulation

SpecFCFS == Init /\ [][NextFCFS]_vars

(***************************************************************************)
(* The handlers called directly, without the controls that restrict them:  *)
(* removeProcess with any id, setAlgorithm with a value that is no option  *)
(* of the select, runSimulation whatever the registry holds.               *)
(***************************************************************************)
CallRemoveProcess ==
  \E id \in ProcessIds :
    /\ processes' = removeProcess(processes, id)
    /\ alert' = NoAlert
    /\ lastCall' = Call("removeProcess", id, TRUE)
    /\ UNCHANGED algorithm

CallSetAlgorithm ==
  \E value \in DirectSelectorInputs :
    /\ algorithm' = value
    /\ alert' = NoAlert
    /\ lastCall' = Call("setAlgorithm", "", TRUE)
    /\ UNCHANGED processes

CallRunSimulation ==
  /\ LET r == runSimulation(processes, processes, algorithm) IN
       /\ processes' = r.processes
       /\ alert' = r.alert
  /\ lastCall' = Call("runSimulation", "", TRUE)
  /\ UNCHANGED algorithm

NextDirect ==
  AddProcess \/ CallRemoveProcess \/ CallSetAlgorithm \/ CallRunSimulation

SpecDirect == Init /\ [][NextDirect]_vars

(***************************************************************************)
(* Two handlers called before React renders again: a click on the remove   *)
(* button of a rendered card and a click on Run Simulation dispatched in   *)
(* one batch.  Both closures hold the `processes` of the same render.      *)
(* removeProcess queues the updater prev => prev.filter(...), runSimulation*)
(* computes from the captured list and queues the value setProcesses is    *)
(* given; the render applies the queue in order, so the registry becomes   *)
(* what runSimulation returns for snap = the rendered list and prev = the  *)
(* filtered one.                                                           *)
(***************************************************************************)
RemoveThenRun ==
  \E id \in Ids(processes) :
    LET r == runSimulation(processes, removeProcess(processes, id), algorithm) IN
      /\ processes' = r.processes
      /\ alert' = r.alert
      /\ lastCall' = Call("removeProcess, runSimulation", id, TRUE)
      /\ UNCHANGED algorithm

NextBatched == Next \/ RemoveThenRun

SpecBatched == Init /\ [][NextBatched]_vars

(***************************************************************************)
(* Properties.                                                             *)
(***************************************************************************)
\* the last handler call was runSimulation and it installed a result
RunSucceeded == lastCall.op = "runSimulation" /\ alert = NoAlert

\* JavaScript's >=, > and <: false when an operand is NaN
JSGeq(a, b) == a # NaN /\ b # NaN /\ a >= b
JSGt(a, b) == a # NaN /\ b # NaN /\ a > b
JSLt(a, b) == a # NaN /\ b # NaN /\ a < b

\* C1: in every reachable state, whatever sequence of addProcess,
\* removeProcess and runSimulation calls led to it, no two processes of the
\* registry share an id.
C1_UniqueIds ==
  \A i, j \in Indices(processes) :
    i # j => processes[i].id # processes[j].id

\* three processes in the registry after adds and a run that installed its result
C1_Witness == RunSucceeded /\ Len(processes) = 3

\* C2: a call of addProcess with an id the registry already holds fails and
\* leaves the registry as it was (same processes, same fields, same order);
\* the alert it raises is the duplicate-id alert when the required fields
\* are filled.
C2_DuplicateAddRejected ==
  [][(lastCall'.op = "addProcess" /\ lastCall'.id \in Ids(processes))
       => /\ processes' = processes
          /\ alert' # NoAlert
          /\ lastCall'.filled => alert' = AlertDuplicate]_vars

\* an add, all required fields filled, with an id of a registry of two or
\* more was answered by the duplicate-id alert
C2_Witness ==
  /\ lastCall.op = "addProcess"
  /\ lastCall.filled
  /\ alert = AlertDuplicate
  /\ lastCall.id \in Ids(processes)
  /\ Len(processes) >= 2

\* C3: after a run of FCFS on a non-empty registry, walking the result in
\* its order with currentTime starting at 0, every process has
\* startTime = max(currentTime, arrivalTime) and
\* completionTime = startTime + burstTime, currentTime then being that
\* completionTime; and completionTime - startTime = burstTime for every
\* process.
C3_FcfsTimes ==
  RunSucceeded =>
    \A i \in Indices(processes) :
      LET p           == processes[i]
          currentTime == IF i = 1 THEN 0 ELSE processes[i - 1].completionTime
      IN  /\ p.startTime = MathMax(currentTime, p.arrivalTime)
          /\ p.completionTime = JSAdd(p.startTime, p.burstTime)
          /\ JSSub(p.completionTime, p.startTime) = p.burstTime

\* C4: a run of FCFS emits the processes in ascending order of arrivalTime,
\* and two processes of equal arrivalTime in the order the registry held
\* them in before the run.
PositionOf(procs, id) == CHOOSE i \in Indices(procs) : procs[i].id = id

C4_ArrivalOrder ==
  [][(lastCall'.op = "runSimulation" /\ alert' = NoAlert)
       => \A i, j \in Indices(processes') :
            LET p == processes'[i]
                q == processes'[j]
            IN  i < j =>
                  /\ ~JSGt(p.arrivalTime, q.arrivalTime)
                  /\ p.arrivalTime = q.arrivalTime
                       => PositionOf(processes, p.id) < PositionOf(processes, q.id)]_vars

\* C5: after a run every process has
\* turnAroundTime = completionTime - arrivalTime and
\* waitingTime = turnAroundTime - burstTime.
C5_DerivedMetrics ==
  RunSucceeded =>
    \A i \in Indices(processes) :
      LET p == processes[i] IN
        /\ p.turnAroundTime = JSSub(p.completionTime, p.arrivalTime)
        /\ p.waitingTime = JSSub(p.turnAroundTime, p.burstTime)

\* C6: after a run on a registry whose processes all have arrivalTime >= 0
\* and burstTime > 0, every process has waitingTime >= 0,
\* turnAroundTime >= burstTime and completionTime >= arrivalTime.
ValidTimes(p) == JSGeq(p.arrivalTime, 0) /\ JSGt(p.burstTime, 0)

Overlap(p, q) ==
  /\ JSLt(p.startTime, p.completionTime)
  /\ JSLt(q.startTime, q.completionTime)
  /\ JSLt(p.startTime, q.completionTime)
  /\ JSLt(q.startTime, p.completionTime)

C7_NoOverlap ==
  RunSucceeded =>
    \A i, j \in Indices(processes) :
      i # j => ~Overlap(processes[i], processes[j])

\* C8: every process of the registry has arrivalTime >= 0 and burstTime > 0,
\* in every reachable state.
C8_ValidRegistry ==
  \A i \in Indices(processes) : ValidTimes(processes[i])

\* C9: a call of runSimulation on an empty registry fails: it raises an
\* alert (and does not succeed with an empty result).
C9_EmptyRunFails ==
  (lastCall.op = "runSimulation" /\ processes = <<>>) => alert # NoAlert

\* C10: a call of runSimulation with a selector that is none of the four
\* named algorithms raises the not-implemented alert and leaves the registry
\* as it was: contents, order and the metrics of an earlier run.
C10_UnsupportedSelectorRejected ==
  [][(lastCall'.op = "runSimulation" /\ algorithm \notin SCHEDULING_ALGORITHMS)
       => /\ alert' = AlertNotImplemented
          /\ processes' = processes]_vars

\* a run with such a selector on a registry that holds the metrics of an
\* earlier run
C10_Witness ==
  /\ lastCall.op = "runSimulation"
  /\ algorithm \notin SCHEDULING_ALGORITHMS
  /\ alert = AlertNotImplemented
  /\ Len(processes) >= 2
  /\ \E i \in Indices(processes) : processes[i].completionTime # Undefined

\* C11: after a call of runSimulation on a non-empty registry of valid
\* processes with one of the four named algorithms selected, no alert was
\* raised and every process carries startTime, completionTime,
\* turnAroundTime and waitingTime.
HasMetrics(p) ==
  /\ p.startTime # Undefined
  /\ p.completionTime # Undefined
  /\ p.turnAroundTime # Undefined
  /\ p.waitingTime # Undefined

C11_NamedAlgorithmsRun ==
  ( /\ lastCall.op = "runSimulation"
    /\ algorithm \in SCHEDULING_ALGORITHMS
    /\ processes # <<>>
    /\ \A i \in Indices(processes) : ValidTimes(processes[i]) )
    => /\ alert = NoAlert
       /\ \A i \in Indices(processes) : HasMetrics(processes[i])

\* C12: a run that installs its result changes no id, arrivalTime,
\* burstTime or priority: every process of the registry before the run is
\* in the result with these four fields as they were, and the result holds
\* no record that is not the annotation of a process of the registry.
SameInput(p, q) ==
  /\ p.id = q.id
  /\ p.arrivalTime = q.arrivalTime
  /\ p.burstTime = q.burstTime
  /\ p.priority = q.priority

C12_RunKeepsInput ==
  [][(lastCall'.op = "runSimulation" /\ alert' = NoAlert)
       => /\ \A i \in Indices(processes) :
               \E j \in Indices(processes') : SameInput(processes[i], processes'[j])
          /\ \A j \in Indices(processes') :
               \E i \in Indices(processes) : SameInput(processes[i], processes'[j])]_vars

\* a run installed its result on three processes, one with a priority, one
\* that arrived late, one that had to wait
C12_Witness ==
  /\ RunSucceeded
  /\ Len(processes) = 3
  /\ \E i \in Indices(processes) : processes[i].priority # 0
  /\ \E i \in Indices(processes) : processes[i].arrivalTime = 1
  /\ \E i \in Indices(processes) : JSGt(processes[i].startTime, processes[i].arrivalTime)

\* C13: FCFS keeps no state between runs.  For the registry of every
\* reachable state, the result of a run does not depend on the metrics an
\* earlier run left in the records, and a run on the result of a run gives
\* that result again: the same order and the same metrics.
RunFCFS(procs) == runSimulation(procs, procs, FCFS).processes

ClearMetrics(procs) ==
  [i \in Indices(procs) |->
     [procs[i] EXCEPT !.startTime = Undefined, !.completionTime = Undefined,
                      !.turnAroundTime = Undefined, !.waitingTime = Undefined]]

C13_RunTwiceIsRunOnce ==
  /\ RunFCFS(ClearMetrics(processes)) = RunFCFS(processes)
  /\ RunFCFS(RunFCFS(processes)) = RunFCFS(processes)

\* a run installed its result; then a process was added that arrives before
\* the first of that result, so that the next run gives a new order and new
\* metrics to records that carry old ones
C13_Witness ==
  /\ Len(processes) = 3
  /\ HasMetrics(processes[1])
  /\ ~HasMetrics(processes[3])
  /\ RunFCFS(processes)[1].id = processes[3].id
  /\ RunFCFS(processes)[2].startTime # processes[1].startTime

\* C14: a call of removeProcess(id) raises no alert.  When a process of the
\* registry has that id, the registry after the call is the registry before
\* it with that one record taken out, the other records unchanged and in
\* their order; when none has, the registry is unchanged.
Without(procs, k) == SubSeq(procs, 1, k - 1) \o SubSeq(procs, k + 1, Len(procs))

C14_RemoveExactlyOne ==
  [][lastCall'.op = "removeProcess"
       => /\ alert' = NoAlert
          /\ lastCall'.id \in Ids(processes)
               => \E k \in Indices(processes) :
                    /\ processes[k].id = lastCall'.id
                    /\ processes' = Without(processes, k)
          /\ lastCall'.id \notin Ids(processes) => processes' = processes]_vars

\* a removeProcess call left two processes that carry the metrics of a run
C14_Witness ==
  /\ lastCall.op = "removeProcess"
  /\ Len(processes) = 2
  /\ \A i \in Indices(processes) : HasMetrics(processes[i])

\* C15: in every reachable state and for every content of the form, a call
\* of addProcess that raises no alert gives the registry one record more:
\* the records it held, unchanged and in their order, followed by a record
\* with the id of the form, state New, none of the four metrics, and
\* priority 0 when the priority field of the form is empty.
C15_AddAppendsOne ==
  \A np \in FormInputs :
    LET r == addProcess(processes, processes, np) IN
      r.alert = NoAlert
        => /\ Len(r.processes) = Len(processes) + 1
           /\ Front(r.processes) = processes
           /\ Last(r.processes).id = np.id
           /\ Last(r.processes).state = "New"
           /\ Last(r.processes).startTime = Undefined
           /\ Last(r.processes).completionTime = Undefined
           /\ Last(r.processes).turnAroundTime = Undefined
           /\ Last(r.processes).waitingTime = Undefined
           /\ np.priority = <<>> => Last(r.processes).priority = 0

\* an add without a priority has just put a third record behind two that
\* carry the metrics of a run, one of them added with a priority
C15_Witness ==
  /\ lastCall.op = "addProcess"
  /\ alert = NoAlert
  /\ Len(processes) = 3
  /\ HasMetrics(processes[1]) /\ HasMetrics(processes[2])
  /\ \E i \in 1..2 : processes[i].priority # 0
  /\ processes[3].priority = 0
  /\ ~HasMetrics(processes[3])

\* C16: in every reachable state, a call of addProcess with a form whose
\* id, arrivalTime or burstTime is empty raises the required-fields alert
\* and leaves the registry as it was; a form with the three fields filled
\* and arrivalTime "0" does not raise it, and puts a process with
\* arrivalTime 0 into a registry that does not hold its id.  After a call
\* that raised the required-fields alert the handlers still do their work:
\* an add of a new id appends, a remove takes its process out, a run of
\* FCFS installs a result.
ZeroArrivalForm(id) == Form(id, <<"0">>, <<"1">>, <<>>)

C16_MissingFieldRejected ==
  /\ \A np \in FormInputs :
       LET r == addProcess(processes, processes, np) IN
         /\ ~Filled(np) => (r.alert = AlertRequired /\ r.processes = processes)
         /\ (Filled(np) /\ np.arrivalTime = <<"0">>)
              => /\ r.alert # AlertRequired
                 /\ np.id \notin Ids(processes)
                      => (r.alert = NoAlert /\ Last(r.processes).arrivalTime = 0)
  /\ (lastCall.op = "addProcess" /\ alert = AlertRequired)
       => /\ \A id \in ProcessIds \ Ids(processes) :
               LET r == addProcess(processes, processes, ZeroArrivalForm(id)) IN
                 r.alert = NoAlert /\ Len(r.processes) = Len(processes) + 1
          /\ \A id \in Ids(processes) :
               Len(removeProcess(processes, id)) = Len(processes) - 1
          /\ runSimulation(processes, processes, FCFS).alert = NoAlert

\* an add with a required field empty was answered by the required-fields
\* alert, the registry holding two processes, one that arrives at 0
C16_Witness ==
  /\ lastCall.op = "addProcess"
  /\ ~lastCall.filled
  /\ alert = AlertRequired
  /\ Len(processes) = 2
  /\ \E i \in Indices(processes) : processes[i].arrivalTime = 0

\* C17: a run that installs its result leaves the registry with the same
\* set of ids and the same length as before the run, each id once.
C17_RunKeepsIds ==
  [][(lastCall'.op = "runSimulation" /\ alert' = NoAlert)
       => /\ Ids(processes') = Ids(processes)
          /\ Len(processes') = Len(processes)
          /\ Cardinality(Ids(processes')) = Len(processes')]_vars

\* a run installed its result on three processes, two of the same arrival
\* time among them
C17_Witness ==
  /\ RunSucceeded
  /\ Len(processes) = 3
  /\ \E i, j \in Indices(processes) :
       i # j /\ processes[i].arrivalTime = processes[j].arrivalTime

\* C18: a run never brings back a removed process.  A call of runSimulation
\* puts no id into the registry that the registry did not hold, and when
\* removeProcess(id) and then runSimulation are called on the same rendered
\* list, the registry that results holds no process with that id.
C18_RemovedStaysRemoved ==
  [][/\ lastCall'.op = "runSimulation" => Ids(processes') \subseteq Ids(processes)
     /\ lastCall'.op = "removeProcess, runSimulation"
          => lastCall'.id \notin Ids(processes')]_vars

\* C19: in every reachable state the state field of every process of the
\* registry is New, the processes a run has given metrics to included.
C19_StateAlwaysNew ==
  \A i \in Indices(processes) : processes[i].state = "New"

\* a run installed its result on two processes: both carry its metrics and
\* are still New
C19_Witness ==
  /\ RunSucceeded
  /\ Len(processes) = 2
  /\ \A i \in Indices(processes) :
       HasMetrics(processes[i]) /\ processes[i].state = "New"

====
